---- MODULE Spec2Model ----
(***************************************************************************)
(* publishconf.py: the publish-time settings module of the site.  Loading  *)
(* it runs its statements top to bottom in a fresh module namespace:       *)
(*   4  import os                                                          *)
(*   5  import sys                                                         *)
(*   6  sys.path.append(os.curdir)                                         *)
(*   7  from pelicanconf import *                                          *)
(*   9  SITEURL = 'https://tech.chefclub.tv/'                              *)
(*  10  RELATIVE_URLS = True                                               *)
(*  12  FEED_ALL_ATOM = 'feeds/all.atom.xml'                               *)
(*  13  CATEGORY_FEED_ATOM = 'feeds/%s.atom.xml'                           *)
(*  14  TAG_FEED_ATOM = "feeds/%s.atom.xml"                                *)
(*  16  DELETE_OUTPUT_DIRECTORY = True                                     *)
(*  17  DISQUS_SITENAME = "tech-chefclub-tv"                               *)
(* A module namespace is a function from the names it binds to their      *)
(* values.  Chars spells a string out, so that a placeholder can be        *)
(* counted and substituted and a leading underscore can be seen.           *)
(***************************************************************************)
EXTENDS Integers, Sequences, FiniteSets, TLC

VARIABLES
    fs,          \* directory -> the pelicanconf module file it holds, or NoFile
    syspath,     \* sys.path, the module search path (process-global)
    startpath,   \* sys.path as it was when the process started (history)
    sysmodules,  \* sys.modules restricted to pelicanconf: {} or {module}
    ns,          \* one namespace per load of publishconf.py, oldest first
    pc,          \* line of the next statement of the running load
    status,      \* "idle", "running", "done" or "error"
    feeds        \* the feeds the generator has written: [kind, name, path]

vars == <<fs, syspath, startpath, sysmodules, ns, pc, status, feeds>>

\* ------------------------------------------------------------- bounds
MaxLoads == 2
MaxPath == 1

\* ------------------------------------------------------------- values
PyStr(s) == <<"str", s>>
PyBool(b) == <<"bool", b>>
PyModule(n) == <<"module", n>>

\* The strings of the model: the literals of publishconf.py, the names, the
\* values a base configuration binds and the names and paths of feeds.
Strings ==
    {"https://tech.chefclub.tv/",
     "http://tech.chefclub.tv/",
     "feeds/all.atom.xml",
     "feeds/%s.atom.xml",
     "feeds/cat.atom.xml",
     "tech-chefclub-tv",
     "feeds/news.atom.xml",
     ".",
     "lib",
     "all",
     "news",
     "SITEURL",
     "RELATIVE_URLS",
     "FEED_ALL_ATOM",
     "CATEGORY_FEED_ATOM",
     "TAG_FEED_ATOM",
     "DELETE_OUTPUT_DIRECTORY",
     "DISQUS_SITENAME",
     "AUTHOR",
     "_CACHE",
     "os",
     "sys"}

\* The characters of a string.
Chars(s) ==
    CASE s = "https://tech.chefclub.tv/" ->
             <<"h","t","t","p","s",":","/","/","t","e","c","h",".","c",
               "h","e","f","c","l","u","b",".","t","v","/">>
      [] s = "http://tech.chefclub.tv/" ->
             <<"h","t","t","p",":","/","/","t","e","c","h",".","c","h",
               "e","f","c","l","u","b",".","t","v","/">>
      [] s = "feeds/all.atom.xml" ->
             <<"f","e","e","d","s","/","a","l","l",".","a","t","o","m",
               ".","x","m","l">>
      [] s = "feeds/%s.atom.xml" ->
             <<"f","e","e","d","s","/","%","s",".","a","t","o","m",".",
               "x","m","l">>
      [] s = "feeds/cat.atom.xml" ->
             <<"f","e","e","d","s","/","c","a","t",".","a","t","o","m",
               ".","x","m","l">>
      [] s = "tech-chefclub-tv" ->
             <<"t","e","c","h","-","c","h","e","f","c","l","u","b","-",
               "t","v">>
      [] s = "feeds/news.atom.xml" ->
             <<"f","e","e","d","s","/","n","e","w","s",".","a","t","o",
               "m",".","x","m","l">>
      [] s = "." ->
             <<".">>
      [] s = "lib" ->
             <<"l","i","b">>
      [] s = "all" ->
             <<"a","l","l">>
      [] s = "news" ->
             <<"n","e","w","s">>
      [] s = "SITEURL" ->
             <<"S","I","T","E","U","R","L">>
      [] s = "RELATIVE_URLS" ->
             <<"R","E","L","A","T","I","V","E","_","U","R","L","S">>
      [] s = "FEED_ALL_ATOM" ->
             <<"F","E","E","D","_","A","L","L","_","A","T","O","M">>
      [] s = "CATEGORY_FEED_ATOM" ->
             <<"C","A","T","E","G","O","R","Y","_","F","E","E","D","_",
               "A","T","O","M">>
      [] s = "TAG_FEED_ATOM" ->
             <<"T","A","G","_","F","E","E","D","_","A","T","O","M">>
      [] s = "DELETE_OUTPUT_DIRECTORY" ->
             <<"D","E","L","E","T","E","_","O","U","T","P","U","T","_",
               "D","I","R","E","C","T","O","R","Y">>
      [] s = "DISQUS_SITENAME" ->
             <<"D","I","S","Q","U","S","_","S","I","T","E","N","A","M",
               "E">>
      [] s = "AUTHOR" ->
             <<"A","U","T","H","O","R">>
      [] s = "_CACHE" ->
             <<"_","C","A","C","H","E">>
      [] s = "os" ->
             <<"o","s">>
      [] s = "sys" ->
             <<"s","y","s">>

\* The string with the given characters.
Str(c) == CHOOSE s \in Strings : Chars(s) = c

\* ------------------------------------------------------------- names
PublishKeys ==
    {"SITEURL", "RELATIVE_URLS", "FEED_ALL_ATOM", "CATEGORY_FEED_ATOM",
     "TAG_FEED_ATOM", "DELETE_OUTPUT_DIRECTORY", "DISQUS_SITENAME"}

\* Names only the base configuration may bind: a public setting and a name
\* with a leading underscore.
BaseOnlyNames == {"AUTHOR", "_CACHE"}

\* ------------------------------------------------------------- literals
\* Variants: the URL without TLS, a category template without placeholder.
SiteurlWrong == PyStr("http://tech.chefclub.tv/")
SiteurlValue == PyStr("https://tech.chefclub.tv/")
RelativeUrlsValue == PyBool(TRUE)
FeedAllAtomValue == PyStr("feeds/all.atom.xml")
CategoryFeedNoSlot == PyStr("feeds/cat.atom.xml")
CategoryFeedAtomValue == PyStr("feeds/%s.atom.xml")
TagFeedAtomValue == PyStr("feeds/%s.atom.xml")
DeleteOutputDirectoryValue == PyBool(TRUE)
DisqusSitenameValue == PyStr("tech-chefclub-tv")

\* The value each assignment of publishconf.py binds.
PublishValue(k) ==
    CASE k = "SITEURL" -> SiteurlValue
      [] k = "RELATIVE_URLS" -> RelativeUrlsValue
      [] k = "FEED_ALL_ATOM" -> FeedAllAtomValue
      [] k = "CATEGORY_FEED_ATOM" -> CategoryFeedAtomValue
      [] k = "TAG_FEED_ATOM" -> TagFeedAtomValue
      [] k = "DELETE_OUTPUT_DIRECTORY" -> DeleteOutputDirectoryValue
      [] k = "DISQUS_SITENAME" -> DisqusSitenameValue

\* ------------------------------------------------------------- file system
\* os.curdir, and one other directory that may be on the search path.
CurDir == "."
LibDir == "lib"
Dirs == {CurDir, LibDir}

NoFile == [missing |-> TRUE]

\* What a pelicanconf.py found in directory d binds to name k.  "own": a value
\* of the setting's type, naming the directory where the type allows, so that
\* the modules of two directories differ; "pub": the very value
\* publishconf.py assigns.
BaseValue(d, k, kind) ==
    IF kind = "pub" /\ k \in PublishKeys THEN PublishValue(k)
    ELSE IF k \in {"RELATIVE_URLS", "DELETE_OUTPUT_DIRECTORY"} THEN PyBool(FALSE)
    ELSE PyStr(d)

\* A pelicanconf module: the names it binds and, when it defines one, its
\* __all__ list.
BaseModule(d, defs, hasall, all, kind) ==
    [file |-> d,
     vals |-> [k \in defs |-> BaseValue(d, k, kind)],
     hasall |-> hasall,
     all |-> all]

PubShapes == {{}, PublishKeys} \cup {{k} : k \in PublishKeys}
AllShapes == SUBSET {"_CACHE", "SITEURL"}
Kinds == {"own", "pub"}

BoundedSeq(S, n) == UNION {[1..m -> S] : m \in 0..n}

\* ------------------------------------------------------------- helpers
\* A name is private when it starts with an underscore.
IsPrivate(k) == Chars(k)[1] = "_"

\* The names `from m import *` copies: __all__ when m defines it, otherwise
\* every name of m without a leading underscore.
\* Variant: __all__ is not consulted.
ExportedIgnoringAll(m) == {k \in DOMAIN m.vals : ~IsPrivate(k)}
Exported(m) ==
    IF m.hasall THEN m.all ELSE {k \in DOMAIN m.vals : ~IsPrivate(k)}

\* The namespace after copying the names S of m into n.
CopyNames(n, m, S) ==
    [k \in DOMAIN n \cup S |-> IF k \in S THEN m.vals[k] ELSE n[k]]

StarImport(n, m) == CopyNames(n, m, Exported(m))

\* Variant: name is bound only when nothing bound it before (setdefault).
AssignIfUnbound(n, k, v) ==
    IF k \in DOMAIN n THEN n ELSE [x \in DOMAIN n \cup {k} |-> IF x = k THEN v ELSE n[x]]
\* name = value
Assign(n, k, v) == [x \in DOMAIN n \cup {k} |-> IF x = k THEN v ELSE n[x]]

\* Variants: sys.path = [d]; sys.path.insert(0, d).
PathReplace(p, d) == <<d>>
PathPrepend(p, d) == <<d>> \o p
\* list.append
PathAppend(p, d) == Append(p, d)

\* The import system's search of sys.path: the first entry that holds the
\* module wins.
Providers(p) == {i \in 1..Len(p) : fs[p[i]] # NoFile}
FirstProvider(p) == CHOOSE i \in Providers(p) : \A j \in Providers(p) : i <= j
FindModule(p) == IF Providers(p) = {} THEN NoFile ELSE fs[p[FirstProvider(p)]]

EmptyNamespace == [k \in {} |-> PyBool(FALSE)]
Cur == Len(ns)

\* ------------------------------------------------------------- the load
Init ==
    /\ \E pub \in PubShapes, extra \in SUBSET BaseOnlyNames, hasall \in BOOLEAN,
          all \in AllShapes, kind \in Kinds, provides \in SUBSET Dirs :
          /\ (~hasall => all = {})
          /\ fs = [d \in Dirs |->
                     IF d \in provides
                     THEN BaseModule(d, pub \cup extra, hasall, all, kind)
                     ELSE NoFile]
    /\ syspath \in BoundedSeq(Dirs, MaxPath)
    /\ startpath = syspath
    /\ sysmodules = {}
    /\ ns = << >>
    /\ pc = 0
    /\ status = "idle"
    /\ feeds = {}

\* The generator (or a caller) loads the settings file: a fresh module.
StartLoad ==
    /\ status \in {"idle", "done"}
    /\ Len(ns) < MaxLoads
    /\ ns' = Append(ns, EmptyNamespace)
    /\ pc' = 4
    /\ status' = "running"
    /\ UNCHANGED <<fs, syspath, startpath, sysmodules, feeds>>

\* Variant: name += value, NameError when the base configuration did not bind name.
BindDeclared(line, next, k, v) ==
    /\ status = "running"
    /\ pc = line
    /\ IF line >= 9 /\ k \notin DOMAIN ns[Cur]
       THEN /\ status' = "error"
            /\ UNCHANGED <<ns, pc>>
       ELSE /\ ns' = [ns EXCEPT ![Cur] = Assign(ns[Cur], k, v)]
            /\ pc' = next
            /\ UNCHANGED status
    /\ UNCHANGED <<fs, syspath, startpath, sysmodules, feeds>>

Bind(line, next, k, v) ==
    /\ status = "running"
    /\ pc = line
    /\ ns' = [ns EXCEPT ![Cur] = Assign(ns[Cur], k, v)]
    /\ pc' = next
    /\ UNCHANGED <<fs, syspath, startpath, sysmodules, status, feeds>>

ImportOs == Bind(4, 5, "os", PyModule("os"))
ImportSys == Bind(5, 6, "sys", PyModule("sys"))

AppendCurdir ==
    /\ status = "running"
    /\ pc = 6
    /\ syspath' = PathAppend(syspath, CurDir)
    /\ pc' = 7
    /\ UNCHANGED <<fs, startpath, sysmodules, ns, status, feeds>>

\* The module the import statement obtains: the cached one, else the first
\* on the search path.
Resolve == IF sysmodules # {} THEN CHOOSE m \in sysmodules : TRUE ELSE FindModule(syspath)

\* from m import *, m being what the import system found (NoFile: nothing).
ImportFrom(m) ==
    \/ /\ m = NoFile                              \* ModuleNotFoundError
       /\ status' = "error"
       /\ UNCHANGED <<sysmodules, ns, pc>>
    \/ /\ m # NoFile
       /\ \E k \in Exported(m) : k \notin DOMAIN m.vals   \* AttributeError
       /\ sysmodules' = {m}
       /\ \E S \in SUBSET (Exported(m) \cap DOMAIN m.vals) :
             ns' = [ns EXCEPT ![Cur] = CopyNames(ns[Cur], m, S)]
       /\ status' = "error"
       /\ UNCHANGED pc
    \/ /\ m # NoFile
       /\ \A k \in Exported(m) : k \in DOMAIN m.vals
       /\ sysmodules' = {m}
       /\ ns' = [ns EXCEPT ![Cur] = StarImport(ns[Cur], m)]
       /\ pc' = 9
       /\ UNCHANGED status

\* Variant: the import guarded by "if 'pelicanconf' not in sys.modules".
ImportPelicanconfOnce ==
    /\ status = "running"
    /\ pc = 7
    /\ IF sysmodules # {}
       THEN pc' = 9 /\ UNCHANGED <<sysmodules, ns, status>>
       ELSE ImportFrom(Resolve)
    /\ UNCHANGED <<fs, syspath, startpath, feeds>>

ImportPelicanconf ==
    /\ status = "running"
    /\ pc = 7
    /\ ImportFrom(Resolve)
    /\ UNCHANGED <<fs, syspath, startpath, feeds>>

SetSITEURL == Bind(9, 10, "SITEURL", SiteurlValue)
SetRELATIVE_URLS == Bind(10, 12, "RELATIVE_URLS", RelativeUrlsValue)
SetFEED_ALL_ATOM == Bind(12, 13, "FEED_ALL_ATOM", FeedAllAtomValue)
SetCATEGORY_FEED_ATOM == Bind(13, 14, "CATEGORY_FEED_ATOM", CategoryFeedAtomValue)
SetTAG_FEED_ATOM == Bind(14, 16, "TAG_FEED_ATOM", TagFeedAtomValue)
SetDELETE_OUTPUT_DIRECTORY ==
    Bind(16, 17, "DELETE_OUTPUT_DIRECTORY", DeleteOutputDirectoryValue)
\* Variant: the last line assigns to SITEURL.
SetSiteurlAgain == Bind(17, 18, "SITEURL", DisqusSitenameValue)
SetDISQUS_SITENAME == Bind(17, 18, "DISQUS_SITENAME", DisqusSitenameValue)

\* The last statement has run: the module is loaded.
EndLoad ==
    /\ status = "running"
    /\ pc = 18
    /\ status' = "done"
    /\ UNCHANGED <<fs, syspath, startpath, sysmodules, ns, pc, feeds>>

Next ==
    \/ StartLoad
    \/ ImportOs
    \/ ImportSys
    \/ AppendCurdir
    \/ ImportPelicanconf
    \/ SetSITEURL
    \/ SetRELATIVE_URLS
    \/ SetFEED_ALL_ATOM
    \/ SetCATEGORY_FEED_ATOM
    \/ SetTAG_FEED_ATOM
    \/ SetDELETE_OUTPUT_DIRECTORY
    \/ SetDISQUS_SITENAME
    \/ EndLoad

Spec == Init /\ [][Next]_vars

\* ------------------------------------------------------------- the feeds
\* The number of %s placeholders of a template; %% is an escaped percent sign.
RECURSIVE Slots(_)
Slots(t) ==
    IF Len(t) < 2 THEN 0
    ELSE IF t[1] = "%"
         THEN (IF t[2] = "s" THEN 1 ELSE 0) + Slots(SubSeq(t, 3, Len(t)))
         ELSE Slots(Tail(t))

\* template % name, for a template whose only conversions are %s and %%.
RECURSIVE Substitute(_, _)
Substitute(t, a) ==
    IF t = << >> THEN << >>
    ELSE IF t[1] = "%" /\ Len(t) >= 2
         THEN (IF t[2] = "s" THEN a ELSE <<t[2]>>)
              \o Substitute(SubSeq(t, 3, Len(t)), a)
         ELSE <<t[1]>> \o Substitute(Tail(t), a)

\* A single argument needs exactly one placeholder, else TypeError.
Format(t, a) ==
    IF Slots(Chars(t)) = 1
    THEN PyStr(Str(Substitute(Chars(t), Chars(a))))
    ELSE <<"TypeError", t>>

\* The category and tag names of the site's content.
FeedNames == {"all", "news"}
FeedKinds == {"all", "category", "tag"}

\* The output path of a feed under the loaded settings.
FeedPath(settings, kind, name) ==
    CASE kind = "all" -> settings["FEED_ALL_ATOM"]
      [] kind = "category" -> Format(settings["CATEGORY_FEED_ATOM"][2], name)
      [] kind = "tag" -> Format(settings["TAG_FEED_ATOM"][2], name)

\* The generator writes one feed, at the path the loaded settings give it.
WriteFeed ==
    /\ status = "done"
    /\ \E kind \in FeedKinds, name \in FeedNames :
          /\ (kind = "all" => name = "all")
          /\ feeds' = feeds \cup
                {[kind |-> kind,
                  name |-> IF kind = "all" THEN "" ELSE name,
                  path |-> FeedPath(ns[Cur], kind, name)]}
    /\ UNCHANGED <<fs, syspath, startpath, sysmodules, ns, pc, status>>

FeedInit ==
    /\ \E pub \in {{}, {"CATEGORY_FEED_ATOM"}}, hasall \in BOOLEAN,
          all \in AllShapes, provides \in SUBSET Dirs :
          /\ (~hasall => all = {})
          /\ fs = [d \in Dirs |->
                     IF d \in provides
                     THEN BaseModule(d, pub, hasall, all, "own")
                     ELSE NoFile]
    /\ syspath = << >>
    /\ startpath = syspath
    /\ sysmodules = {}
    /\ ns = << >>
    /\ pc = 0
    /\ status = "idle"
    /\ feeds = {}

FeedNext == Next \/ WriteFeed

FeedSpec == FeedInit /\ [][FeedNext]_vars

\* ------------------------------------------------------------- properties
\* Load i has run to the end of the file.
Loaded(i) == i \in 1..Len(ns) /\ (i < Len(ns) \/ status = "done")

\* The line of publishconf.py that assigns key k.
LineOf(k) ==
    CASE k = "SITEURL" -> 9
      [] k = "RELATIVE_URLS" -> 10
      [] k = "FEED_ALL_ATOM" -> 12
      [] k = "CATEGORY_FEED_ATOM" -> 13
      [] k = "TAG_FEED_ATOM" -> 14
      [] k = "DELETE_OUTPUT_DIRECTORY" -> 16
      [] k = "DISQUS_SITENAME" -> 17

\* Load i has executed the assignment of key k.
Assigned(i, k) == Loaded(i) \/ (i = Len(ns) /\ status = "running" /\ pc > LineOf(k))

\* The base configuration module the import statement obtained.
Imported == CHOOSE m \in sysmodules : TRUE

\* C1: after the load, each of the seven keys holds its literal value:
\* SITEURL = 'https://tech.chefclub.tv/', RELATIVE_URLS = True,
\* FEED_ALL_ATOM = 'feeds/all.atom.xml', CATEGORY_FEED_ATOM = 'feeds/%s.atom.xml',
\* TAG_FEED_ATOM = 'feeds/%s.atom.xml', DELETE_OUTPUT_DIRECTORY = True,
\* DISQUS_SITENAME = 'tech-chefclub-tv', whatever the base configuration defined.
C1_LiteralValues ==
    \A i \in 1..Len(ns) : Loaded(i) =>
        /\ PublishKeys \subseteq DOMAIN ns[i]
        /\ ns[i]["SITEURL"] = <<"str", "https://tech.chefclub.tv/">>
        /\ ns[i]["RELATIVE_URLS"] = <<"bool", TRUE>>
        /\ ns[i]["FEED_ALL_ATOM"] = <<"str", "feeds/all.atom.xml">>
        /\ ns[i]["CATEGORY_FEED_ATOM"] = <<"str", "feeds/%s.atom.xml">>
        /\ ns[i]["TAG_FEED_ATOM"] = <<"str", "feeds/%s.atom.xml">>
        /\ ns[i]["DELETE_OUTPUT_DIRECTORY"] = <<"bool", TRUE>>
        /\ ns[i]["DISQUS_SITENAME"] = <<"str", "tech-chefclub-tv">>

\* A load has completed over a base configuration that exports all seven keys
\* with values of its own.
C1_Witness ==
    /\ status = "done"
    /\ PublishKeys \subseteq Exported(Imported)
    /\ \A k \in PublishKeys : Imported.vals[k] # PublishValue(k)

\* C2 as claimed: every name the base module defines, other than the seven,
\* is present in the loaded configuration with the base module's value.
C2_AllBaseKeysInherited ==
    \A i \in 1..Len(ns) : Loaded(i) =>
        \A k \in (DOMAIN Imported.vals) \ PublishKeys :
            k \in DOMAIN ns[i] /\ ns[i][k] = Imported.vals[k]

\* C2 amended: every name the wildcard import exports (the names listed in the
\* base module's __all__ when it defines one, otherwise its names that do not
\* start with an underscore), other than the seven, is present in the loaded
\* configuration with the base module's value.
C2_ExportedBaseKeysInherited ==
    \A i \in 1..Len(ns) : Loaded(i) =>
        \A k \in (DOMAIN Imported.vals) \ PublishKeys :
            (IF Imported.hasall THEN k \in Imported.all ELSE Chars(k)[1] # "_")
            => k \in DOMAIN ns[i] /\ ns[i][k] = Imported.vals[k]

\* A load has completed over a base module that lists an underscore name in
\* __all__ and leaves a public name out of it.
C2_Witness ==
    /\ status = "done"
    /\ Imported.hasall
    /\ "_CACHE" \in Imported.all
    /\ "AUTHOR" \in DOMAIN Imported.vals
    /\ "AUTHOR" \notin DOMAIN ns[Len(ns)]
    /\ ns[Len(ns)]["_CACHE"] = Imported.vals["_CACHE"]

\* The import statement of line 7 raised: no module was found, or __all__
\* names something the module does not have.
ImportRaised ==
    \/ sysmodules = {} /\ \A i \in 1..Len(syspath) : fs[syspath[i]] = NoFile
    \/ /\ sysmodules # {}
       /\ Imported.hasall
       /\ \E k \in Imported.all : k \notin DOMAIN Imported.vals

C4_TemplatesWellFormed ==
    \A i \in 1..Len(ns) : Loaded(i) =>
        /\ {"CATEGORY_FEED_ATOM", "TAG_FEED_ATOM", "FEED_ALL_ATOM"} \subseteq DOMAIN ns[i]
        /\ ns[i]["CATEGORY_FEED_ATOM"][1] = "str"
        /\ Slots(Chars(ns[i]["CATEGORY_FEED_ATOM"][2])) = 1
        /\ ns[i]["TAG_FEED_ATOM"][1] = "str"
        /\ Slots(Chars(ns[i]["TAG_FEED_ATOM"][2])) = 1
        /\ ns[i]["FEED_ALL_ATOM"][1] = "str"
        /\ Slots(Chars(ns[i]["FEED_ALL_ATOM"][2])) = 0

\* A load has completed over a base module whose own CATEGORY_FEED_ATOM has
\* no placeholder.
C4_Witness ==
    /\ status = "done"
    /\ "CATEGORY_FEED_ATOM" \in Exported(Imported)
    /\ Slots(Chars(Imported.vals["CATEGORY_FEED_ATOM"][2])) = 0
    /\ Slots(Chars(ns[Len(ns)]["CATEGORY_FEED_ATOM"][2])) = 1

\* C5: no two different feeds the generator writes are assigned the same
\* output path, a category and a tag of one name and a category or tag named
\* 'all' included.
C5_FeedPathsDistinct ==
    \A f \in feeds, g \in feeds : f # g => f.path # g.path

\* C6: once a load has assigned one of the seven keys, no later step changes
\* or deletes that binding, in the rest of the load and ever after.
C6_NeverMutated ==
    [][\A i \in 1..Len(ns) : \A k \in PublishKeys :
          Assigned(i, k) => /\ i \in 1..Len(ns')
                            /\ k \in DOMAIN ns'[i]
                            /\ ns'[i][k] = ns[i][k]]_vars

\* A second load runs while the first load's module still holds its keys.
C6_Witness ==
    /\ Len(ns) = 2
    /\ status = "running"
    /\ pc = 13
    /\ \A k \in PublishKeys : ns[1][k] = PublishValue(k)

\* C7 as claimed: the module search path is the same after the load as
\* before it.
C7_SysPathUntouched == status = "done" => syspath = startpath

\* The number of loads that have executed line 6.
Appends == IF status = "running" /\ pc <= 6 THEN Len(ns) - 1 ELSE Len(ns)

\* C7 amended: outside the module's namespace a load changes only sys.path,
\* by appending os.curdir once at its end (the entries already there stay, in
\* order), and the module cache, by entering the imported pelicanconf.
C7_OnlyCurdirAppended ==
    /\ Len(syspath) = Len(startpath) + Appends
    /\ \A j \in 1..Len(startpath) : syspath[j] = startpath[j]
    /\ \A j \in (Len(startpath) + 1)..Len(syspath) : syspath[j] = "."
    /\ \A m \in sysmodules : \E d \in Dirs : m = fs[d]

\* A load has completed in a process whose search path was not empty.
C7_Witness ==
    /\ status = "done"
    /\ startpath # << >>
    /\ Len(syspath) > Len(startpath)

\* C8: where the base module exports one of the seven keys with a different
\* value, the load holds the base value from the import up to the key's own
\* assignment and the publish value from that assignment on.
C8_PublishOverridesBase ==
    \A i \in 1..Len(ns) : \A k \in PublishKeys :
        (/\ sysmodules # {}
         /\ k \in Exported(Imported)
         /\ k \in DOMAIN Imported.vals
         /\ Imported.vals[k] # PublishValue(k))
        => /\ Assigned(i, k) =>
                 /\ k \in DOMAIN ns[i]
                 /\ ns[i][k] = PublishValue(k)
                 /\ ns[i][k] # Imported.vals[k]
           /\ (i = Len(ns) /\ status = "running" /\ pc >= 9 /\ pc <= LineOf(k))
                 => k \in DOMAIN ns[i] /\ ns[i][k] = Imported.vals[k]

\* A load has completed over a base module exporting its own TAG_FEED_ATOM.
C8_Witness ==
    /\ status = "done"
    /\ "TAG_FEED_ATOM" \in Exported(Imported)
    /\ Imported.vals["TAG_FEED_ATOM"] # PublishValue("TAG_FEED_ATOM")
    /\ ns[Len(ns)]["TAG_FEED_ATOM"] = PublishValue("TAG_FEED_ATOM")

\* C9: every completed load of the process yields the same configuration:
\* the second load binds the same names to the same values as the first.
C9_LoadIdempotent ==
    \A i \in 1..Len(ns), j \in 1..Len(ns) :
        Loaded(i) /\ Loaded(j) =>
            /\ DOMAIN ns[i] = DOMAIN ns[j]
            /\ \A k \in DOMAIN ns[i] : ns[i][k] = ns[j][k]

\* Two loads have completed over a base module that exports a setting of
\* its own.
C9_Witness ==
    /\ Len(ns) >= 2
    /\ status = "done"
    /\ "AUTHOR" \in Exported(Imported)
    /\ ns[2]["AUTHOR"] = Imported.vals["AUTHOR"]

\* The places of the start-up search path that hold a pelicanconf.
StartProviders == {i \in 1..Len(startpath) : fs[startpath[i]] # NoFile}

\* C10: the current directory is on the search path, at its end, when the
\* import runs; the module imported is the one of the first start-up entry
\* that provides a pelicanconf, and the current directory's only when no
\* start-up entry provides one.
C10_CurdirSearchedLast ==
    /\ (status \in {"running", "error"} /\ pc >= 7) =>
          /\ syspath # << >>
          /\ syspath[Len(syspath)] = "."
    /\ sysmodules # {} =>
          /\ StartProviders # {} =>
                \E i \in StartProviders :
                   /\ \A j \in StartProviders : i <= j
                   /\ Imported = fs[startpath[i]]
          /\ StartProviders = {} => Imported = fs["."]

\* Both directories hold a pelicanconf, the other directory was on the path
\* first, and its module is the one imported.
C10_Witness ==
    /\ startpath = <<"lib">>
    /\ fs["."] # NoFile
    /\ fs["lib"] # NoFile
    /\ sysmodules # {}
    /\ Imported.file = "lib"
    /\ status = "done"

====
